---- MODULE Spec2Model ----
(***************************************************************************)
(* Model of loom-js src/middleware/nonce-eth-tx-middleware.ts:             *)
(*   - NonceEthTxMiddleware (Handle / HandleResults) together with the     *)
(*     DAppChain nonce bookkeeping its doc comment describes;              *)
(*   - TransferGateway: withdrawal request construction, withdrawal        *)
(*     receipt decoding and the Contract.EVENT listener.                   *)
(*                                                                         *)
(* Optional values (T | undefined) are sequences of length 0 or 1.         *)
(* Strings that are searched are sequences of words.                       *)
(***************************************************************************)
EXTENDS Integers, Sequences, FiniteSets, TLC

\* ------------------------------------------------------------------ bounds
MaxNonce == 2
MaxSigs == 2

\* --------------------------------------------------------- optional values
None == <<>>
Some(x) == <<x>>
IsSome(o) == Len(o) = 1
Get(o) == o[1]

\* ------------------------------------------------ NonceEthTxMiddleware data
INVALID_TX_NONCE_ERROR == "Invalid tx nonce"

\* The literal searched for in validation.log / commit.log.
NonceMismatchText == <<"sequence", "number", "does", "not", "match">>

\* Log texts the transport can hand back.
Logs ==
  { <<>>,
    <<"insufficient", "balance">>,
    <<"sequence", "number", "does", "match">>,
    NonceMismatchText,
    <<"tx", "rejected", "sequence", "number", "does", "not", "match", "expected", "n">> }

\* String.prototype.indexOf: zero-based index of the first occurrence, or -1.
IndexOf(text, sub) ==
  LET hits == { i \in 1..(Len(text) - Len(sub) + 1) :
                  SubSeq(text, i, i + Len(sub) - 1) = sub }
  IN  IF hits = {} THEN -1
      ELSE (CHOOSE i \in hits : \A j \in hits : i <= j) - 1

\* JavaScript truthiness of an optional string: undefined and '' are falsy.
TruthyLog(log) == IsSome(log) /\ Get(log) # <<>>

\* A stage check that takes any failure code.
StageIsNonceError_AnyFailureCode(stage) ==
  /\ IsSome(stage)
  /\ Get(stage).code # 0
  /\ TruthyLog(Get(stage).log)
  /\ IndexOf(Get(Get(stage).log), NonceMismatchText) # -1

\* The condition of each `if` of HandleResults, for one stage.
StageIsNonceError(stage) ==
  /\ IsSome(stage)
  /\ Get(stage).code = 1
  /\ TruthyLog(Get(stage).log)
  /\ IndexOf(Get(Get(stage).log), NonceMismatchText) # -1

Threw(msg) == [kind |-> "threw", message |-> msg]
Returned(v) == [kind |-> "returned", value |-> v]
NoOutcome == [kind |-> "none"]

HandleResults_ValidationOnly(results) ==
  IF StageIsNonceError(results.validation)
  THEN Threw(INVALID_TX_NONCE_ERROR)
  ELSE Returned(results)

HandleResults(results) ==
  IF StageIsNonceError(results.validation)
  THEN Threw(INVALID_TX_NONCE_ERROR)
  ELSE IF StageIsNonceError(results.commit)
       THEN Threw(INVALID_TX_NONCE_ERROR)
       ELSE Returned(results)

isInvalidTxNonceError(o) == o.kind = "threw" /\ o.message = INVALID_TX_NONCE_ERROR

\* tx.setSequence(nonce + 1)
NextSequence_Stale(nonce) == nonce

NextSequence(nonce) == nonce + 1

\* new NonceTx(); setInner(txData); setSequence(nonce + 1)
NonceTx(txData, nonce) == [inner |-> txData, sequence |-> NextSequence(nonce)]

\* ------------------------------------------------------ callers and chain
Accounts == {"0xA", "0xB"}
Callers == {1, 2, 3}
\* _fromAddress of each caller's middleware instance: 1 and 2 share an account.
fromAddress(p) == IF p = 3 THEN "0xB" ELSE "0xA"
TxPayloads == { <<7>>, <<1, 2>> }

Stage(code, log) == Some([code |-> code, log |-> Some(log)])

VARIABLES
  chainNonce,   \* account -> sequence number of the last committed tx
  pc,           \* caller -> "idle" | "awaitNonce" | "wrapped" | "submitted" | "done"
  txData,       \* caller -> payload handed to Handle
  nonce,        \* caller -> value returned by getNonce2Async (optional)
  tx,           \* caller -> NonceTx produced by Handle (optional)
  results,      \* caller -> ITxResults returned by the transport (optional)
  outcome,      \* caller -> what HandleResults did
  committed,    \* caller -> did the chain commit this caller's current tx
  serial,       \* account -> has every wrap so far started after the previous
                \*            one for the account was committed
  lastAttached  \* account -> sequence attached by the latest finished wrap

VARIABLES
  iResults,     \* the ITxResults handed to one HandleResults call
  iOutcome      \* what that call did

VARIABLES
  gwArgs,       \* arguments of the latest TransferGateway call
  gwSent,       \* what that call handed to callAsync / staticCallAsync (optional)
  gwOutcome,    \* how the latest withdraw*Async call ended
  response,     \* TransferGatewayWithdrawalReceiptResponse of the latest query (optional)
  receiptOut,   \* what withdrawalReceiptAsync resolved with
  receiptPrev,  \* what the previous query resolved with, for the same response
  event,        \* the latest Contract.EVENT delivered to the listener (optional)
  emitted       \* the user events the listener emitted for it, in order

seqVars == <<chainNonce, pc, txData, nonce, tx, results, outcome, committed,
             serial, lastAttached>>
interpVars == <<iResults, iOutcome>>
gwVars == <<gwArgs, gwSent, gwOutcome, response, receiptOut, receiptPrev, event, emitted>>
vars == <<seqVars, interpVars, gwVars>>

InFlight(p) == pc[p] \in {"awaitNonce", "wrapped", "submitted"}

SeqInit ==
  /\ chainNonce = [a \in Accounts |-> 0]
  /\ pc = [p \in Callers |-> "idle"]
  /\ txData = [p \in Callers |-> <<>>]
  /\ nonce = [p \in Callers |-> None]
  /\ tx = [p \in Callers |-> None]
  /\ results = [p \in Callers |-> None]
  /\ outcome = [p \in Callers |-> NoOutcome]
  /\ committed = [p \in Callers |-> FALSE]
  /\ serial = [a \in Accounts |-> TRUE]
  /\ lastAttached = [a \in Accounts |-> 0]

\* A reader that hands back the value of the account's previous wrap.
getNonce2Async_Cached(addr) ==
  IF lastAttached[addr] > 0 THEN lastAttached[addr] - 1 ELSE chainNonce[addr]

\* this._client.getNonce2Async('eth', addr): the chain's current value.
getNonce2Async(addr) == chainNonce[addr]

\* Handle, up to its await: getNonce2Async('eth', _fromAddress) reads the
\* chain state.
HandleCall(p, data) ==
  /\ pc[p] \in {"idle", "done"}
  /\ pc' = [pc EXCEPT ![p] = "awaitNonce"]
  /\ txData' = [txData EXCEPT ![p] = data]
  /\ nonce' = [nonce EXCEPT ![p] = Some(getNonce2Async(fromAddress(p)))]
  /\ tx' = [tx EXCEPT ![p] = None]
  /\ results' = [results EXCEPT ![p] = None]
  /\ outcome' = [outcome EXCEPT ![p] = NoOutcome]
  /\ serial' = [serial EXCEPT ![fromAddress(p)] =
                  /\ @
                  /\ \A q \in Callers \ {p} :
                        fromAddress(q) = fromAddress(p) => ~InFlight(q)
                  /\ \A q \in Callers :
                        (fromAddress(q) = fromAddress(p) /\ pc[q] = "done")
                           => committed[q]]
  /\ committed' = [committed EXCEPT ![p] = FALSE]
  /\ UNCHANGED <<chainNonce, lastAttached, interpVars, gwVars>>

\* Handle, after the await: build and serialize the NonceTx.
HandleResume(p) ==
  /\ pc[p] = "awaitNonce"
  /\ tx' = [tx EXCEPT ![p] = Some(NonceTx(txData[p], Get(nonce[p])))]
  /\ lastAttached' = [lastAttached EXCEPT ![fromAddress(p)] =
                         NonceTx(txData[p], Get(nonce[p])).sequence]
  /\ pc' = [pc EXCEPT ![p] = "wrapped"]
  /\ UNCHANGED <<chainNonce, txData, nonce, results, outcome, committed, serial, interpVars, gwVars>>

\* The DAppChain "keeps track of the nonce of the last committed tx": a tx
\* whose sequence is last committed + 1 is committed.
ChainCommit(p) ==
  /\ pc[p] = "wrapped"
  /\ Get(tx[p]).sequence = chainNonce[fromAddress(p)] + 1
  /\ chainNonce[fromAddress(p)] < MaxNonce
  /\ chainNonce' = [chainNonce EXCEPT ![fromAddress(p)] = @ + 1]
  /\ committed' = [committed EXCEPT ![p] = TRUE]
  /\ results' = [results EXCEPT ![p] =
                   Some([validation |-> Stage(0, <<>>), commit |-> Stage(0, <<>>)])]
  /\ pc' = [pc EXCEPT ![p] = "submitted"]
  /\ UNCHANGED <<txData, nonce, tx, outcome, serial, lastAttached, interpVars, gwVars>>

\* A tx with any other sequence is rejected, at validation (CheckTx) or at
\* commit (DeliverTx), with a log naming the mismatch.
ChainRejectNonce(p, atValidation, log) ==
  /\ pc[p] = "wrapped"
  /\ Get(tx[p]).sequence # chainNonce[fromAddress(p)] + 1
  /\ IndexOf(log, NonceMismatchText) # -1
  /\ results' = [results EXCEPT ![p] =
                   Some(IF atValidation
                        THEN [validation |-> Stage(1, log), commit |-> None]
                        ELSE [validation |-> Stage(0, <<>>), commit |-> Stage(1, log)])]
  /\ pc' = [pc EXCEPT ![p] = "submitted"]
  /\ UNCHANGED <<chainNonce, txData, nonce, tx, outcome, committed, serial, lastAttached, interpVars, gwVars>>

\* A tx with the right sequence that the application rejects for another
\* reason: nothing is committed.
ChainRejectOther(p) ==
  /\ pc[p] = "wrapped"
  /\ Get(tx[p]).sequence = chainNonce[fromAddress(p)] + 1
  /\ results' = [results EXCEPT ![p] =
                   Some([validation |-> Stage(0, <<>>),
                         commit |-> Stage(1, <<"insufficient", "balance">>)])]
  /\ pc' = [pc EXCEPT ![p] = "submitted"]
  /\ UNCHANGED <<chainNonce, txData, nonce, tx, outcome, committed, serial, lastAttached, interpVars, gwVars>>

\* The client hands the transport's results to HandleResults.
HandleResultsCall(p) ==
  /\ pc[p] = "submitted"
  /\ outcome' = [outcome EXCEPT ![p] = HandleResults(Get(results[p]))]
  /\ pc' = [pc EXCEPT ![p] = "done"]
  /\ UNCHANGED <<chainNonce, txData, nonce, tx, results, committed, serial, lastAttached, interpVars, gwVars>>

SeqNext ==
  \/ \E p \in Callers, data \in TxPayloads : HandleCall(p, data)
  \/ \E p \in Callers : HandleResume(p)
  \/ \E p \in Callers : ChainCommit(p)
  \/ \E p \in Callers, v \in BOOLEAN, log \in Logs : ChainRejectNonce(p, v, log)
  \/ \E p \in Callers : ChainRejectOther(p)
  \/ \E p \in Callers : HandleResultsCall(p)


\* ------------------------------------------- HandleResults on its own inputs
StatusCodes == {0, 1, 2}
OptLogs == {None} \cup { Some(l) : l \in Logs }
Stages == {None} \cup { Some([code |-> c, log |-> l]) : c \in StatusCodes, l \in OptLogs }
AllResults == [validation : Stages, commit : Stages]

InterpIdle ==
  /\ iResults = [validation |-> None, commit |-> None]
  /\ iOutcome = NoOutcome

InterpInit ==
  /\ iResults \in AllResults
  /\ iOutcome = NoOutcome

HandleResultsOnce ==
  /\ iOutcome = NoOutcome
  /\ iOutcome' = HandleResults(iResults)
  /\ UNCHANGED <<iResults, seqVars, gwVars>>

\* ---------------------------------------------------- TransferGateway data
EVENT_TOKEN_WITHDRAWAL == "event_token_withdrawal"
EVENT_CONTRACT_MAPPING_CONFIRMED == "event_contract_mapping_confirmed"
tokenWithdrawalSignedEventTopic == "event:TokenWithdrawalSigned"
contractMappingConfirmedEventTopic == "event:ContractMappingConfirmed"

TokenKinds == {"ETH", "ERC20", "ERC721", "ERC721X"}

Addresses == { [chainId |-> "eth", local |-> <<1>>],
               [chainId |-> "default", local |-> <<2>>] }

\* Address.MarshalPB / Address.UnmarshalPB: the protobuf Address message.
MarshalPB(addr) == <<addr.chainId, addr.local>>
UnmarshalPB(pb) == [chainId |-> pb[1], local |-> pb[2]]

\* BN values callers pass.
BNs == {0, 7, 500}

\* marshalBigUIntPB / unmarshalBigUIntPB: big-endian bytes of a BigUInt.
RECURSIVE marshalBigUIntPB(_)
marshalBigUIntPB(n) ==
  IF n < 256 THEN <<n>> ELSE Append(marshalBigUIntPB(n \div 256), n % 256)

RECURSIVE unmarshalBigUIntPB(_)
unmarshalBigUIntPB(bytes) ==
  IF bytes = <<>> THEN 0
  ELSE unmarshalBigUIntPB(SubSeq(bytes, 1, Len(bytes) - 1)) * 256 + bytes[Len(bytes)]

\* `x.MarshalPB()` on a parameter a caller may have left undefined.
CallMarshalPB_Lenient(addr) ==
  IF IsSome(addr) THEN Returned(MarshalPB(Get(addr))) ELSE Returned(<<"", <<>>>>)

CallMarshalPB(addr) ==
  IF IsSome(addr) THEN Returned(MarshalPB(Get(addr))) ELSE Threw("TypeError")

\* if (recipient) { req.setRecipient(recipient.MarshalPB()) }
SetRecipient(recipient) ==
  IF IsSome(recipient) THEN Some(MarshalPB(Get(recipient))) ELSE None

\* The TransferGatewayWithdrawTokenRequest each operation fills in.
WithdrawERC721Request_WithAmount(tokenId, tokenContractPB, recipient) ==
  [tokenKind |-> "ERC721",
   tokenId |-> Some(marshalBigUIntPB(tokenId)),
   tokenAmount |-> Some(marshalBigUIntPB(tokenId)),
   tokenContract |-> Some(tokenContractPB),
   recipient |-> SetRecipient(recipient)]

WithdrawERC721Request(tokenId, tokenContractPB, recipient) ==
  [tokenKind |-> "ERC721",
   tokenId |-> Some(marshalBigUIntPB(tokenId)),
   tokenAmount |-> None,
   tokenContract |-> Some(tokenContractPB),
   recipient |-> SetRecipient(recipient)]

WithdrawERC721XRequest(tokenId, amount, tokenContractPB, recipient) ==
  [tokenKind |-> "ERC721X",
   tokenId |-> Some(marshalBigUIntPB(tokenId)),
   tokenAmount |-> Some(marshalBigUIntPB(amount)),
   tokenContract |-> Some(tokenContractPB),
   recipient |-> SetRecipient(recipient)]

WithdrawERC20Request(amount, tokenContractPB, recipient) ==
  [tokenKind |-> "ERC20",
   tokenId |-> None,
   tokenAmount |-> Some(marshalBigUIntPB(amount)),
   tokenContract |-> Some(tokenContractPB),
   recipient |-> SetRecipient(recipient)]

\* The TransferGatewayWithdrawETHRequest.
WithdrawETHRequest(amount, gatewayPB, recipient) ==
  [amount |-> Some(marshalBigUIntPB(amount)),
   mainnetGateway |-> Some(gatewayPB),
   recipient |-> SetRecipient(recipient)]

OptAddresses == {None} \cup { Some(a) : a \in Addresses }

NoArgs == [op |-> "none", tokenId |-> None, amount |-> None,
           address |-> None, recipient |-> None]
Args(op, tokenId, amount, address, recipient) ==
  [op |-> op, tokenId |-> tokenId, amount |-> amount,
   address |-> address, recipient |-> recipient]

GwInit ==
  /\ gwArgs = NoArgs
  /\ gwSent = None
  /\ gwOutcome = NoOutcome
  /\ response = None
  /\ receiptOut = NoOutcome
  /\ receiptPrev = NoOutcome
  /\ event = None
  /\ emitted = <<>>

\* The gateway keeps nothing between calls, so each behaviour follows one
\* call (or one delivered event) from the state after construction.
Fresh == gwArgs = NoArgs /\ event = None

\* What a withdraw*Async call leaves behind: the request went to callAsync,
\* or the call threw before reaching it.
WithdrawEnds(marshalled, method, req) ==
  /\ gwSent' = IF marshalled.kind = "threw" THEN None
               ELSE Some([method |-> method, req |-> req])
  /\ gwOutcome' = IF marshalled.kind = "threw" THEN marshalled
                  ELSE Returned("promise")
  /\ response' = None
  /\ receiptOut' = NoOutcome
  /\ receiptPrev' = NoOutcome
  /\ event' = None
  /\ emitted' = <<>>

withdrawERC721Async(tokenId, tokenContract, recipient) ==
  /\ Fresh
  /\ gwArgs' = Args("withdrawERC721", Some(tokenId), None, tokenContract, recipient)
  /\ WithdrawEnds(CallMarshalPB(tokenContract), "WithdrawToken",
                  WithdrawERC721Request(tokenId, CallMarshalPB(tokenContract).value,
                                        recipient))
  /\ UNCHANGED <<seqVars, interpVars>>

withdrawERC721XAsync(tokenId, amount, tokenContract, recipient) ==
  /\ Fresh
  /\ gwArgs' = Args("withdrawERC721X", Some(tokenId), Some(amount), tokenContract, recipient)
  /\ WithdrawEnds(CallMarshalPB(tokenContract), "WithdrawToken",
                  WithdrawERC721XRequest(tokenId, amount,
                                         CallMarshalPB(tokenContract).value, recipient))
  /\ UNCHANGED <<seqVars, interpVars>>

withdrawERC20Async(amount, tokenContract, recipient) ==
  /\ Fresh
  /\ gwArgs' = Args("withdrawERC20", None, Some(amount), tokenContract, recipient)
  /\ WithdrawEnds(CallMarshalPB(tokenContract), "WithdrawToken",
                  WithdrawERC20Request(amount, CallMarshalPB(tokenContract).value,
                                       recipient))
  /\ UNCHANGED <<seqVars, interpVars>>

withdrawETHAsync(amount, ethereumGateway, recipient) ==
  /\ Fresh
  /\ gwArgs' = Args("withdrawETH", None, Some(amount), ethereumGateway, recipient)
  /\ WithdrawEnds(CallMarshalPB(ethereumGateway), "WithdrawETH",
                  WithdrawETHRequest(amount, CallMarshalPB(ethereumGateway).value,
                                     recipient))
  /\ UNCHANGED <<seqVars, interpVars>>

\* ------------------------------------------ receipts and signed withdrawals
\* Validator signatures as received: <<r, s, v>>.
RawSigs == { <<11, 12, 27>>, <<21, 22, 28>>, <<31, 32, 1>> }

RECURSIVE SeqsUpTo(_, _)
SeqsUpTo(S, n) ==
  IF n = 0 THEN { <<>> }
  ELSE SeqsUpTo(S, n - 1) \cup
       { Append(q, x) : q \in { t \in SeqsUpTo(S, n - 1) : Len(t) = n - 1 }, x \in S }

RawSigLists == SeqsUpTo(RawSigs, MaxSigs)

\* ethers utils.splitSignature: (r, s, v) with v brought to 27 / 28.
splitSignature(raw) ==
  LET v == IF raw[3] \in {27, 28} THEN raw[3] ELSE 27 + (raw[3] % 2)
  IN  [r |-> raw[1], s |-> raw[2], v |-> v, recoveryParam |-> v - 27]

\* list.map(utils.splitSignature)
RECURSIVE MapSplitSignature_Reversed(_)
MapSplitSignature_Reversed(list) ==
  IF list = <<>> THEN <<>>
  ELSE Append(MapSplitSignature_Reversed(Tail(list)), splitSignature(Head(list)))

RECURSIVE MapSplitSignature(_)
MapSplitSignature(list) ==
  IF list = <<>> THEN <<>>
  ELSE <<splitSignature(Head(list))>> \o MapSplitSignature(Tail(list))

\* BigUInt fields as they arrive.
RawUInts == { <<7>>, <<1, 244>> }
OptRawUInts == {None} \cup { Some(b) : b \in RawUInts }

\* A decoded protobuf message: every field is optional on the wire.
Message(kind, owner, contract, id, amt, wnonce, sigs, foreign, local) ==
  [tokenKind |-> kind, tokenOwner |-> owner, tokenContract |-> contract,
   tokenId |-> id, tokenAmount |-> amt, withdrawalNonce |-> wnonce,
   validatorSignatures |-> sigs, foreignContract |-> foreign,
   localContract |-> local]

OwnerPB == MarshalPB([chainId |-> "default", local |-> <<2>>])
ContractPB == MarshalPB([chainId |-> "eth", local |-> <<1>>])

\* The token fields the gateway contract fills in for each kind: the ones
\* the decoders dereference with `!` are present, the others may be.
TokenFieldChoices ==
  { f \in [kind : TokenKinds, id : OptRawUInts, amt : OptRawUInts] :
      /\ f.kind \in {"ERC721", "ERC721X"} => IsSome(f.id)
      /\ f.kind # "ERC721" => IsSome(f.amt) }

\* TransferGatewayWithdrawalReceipt messages.
RawReceipts ==
  { Message(f.kind, Some(OwnerPB), Some(ContractPB), f.id, f.amt, Some(5), sigs,
            None, None) : f \in TokenFieldChoices, sigs \in RawSigLists }

\* TransferGatewayTokenWithdrawalSigned messages.
RawWithdrawalsSigned ==
  { Message(f.kind, Some(OwnerPB), Some(ContractPB), f.id, f.amt, None, sigs,
            None, None) : f \in TokenFieldChoices, sigs \in RawSigLists }

\* TransferGatewayContractMappingConfirmed messages.
RawMappingsConfirmed ==
  { Message("ETH", None, None, None, None, None, <<>>,
            Some(MarshalPB(f)), Some(MarshalPB(l))) : f \in Addresses, l \in Addresses }

EmptyMessage == Message("ETH", None, None, None, None, None, <<>>, None, None)

\* TransferGatewayWithdrawalReceiptResponse: getReceipt() may be undefined.
Responses == { [receipt |-> None] } \cup { [receipt |-> Some(r)] : r \in RawReceipts }

\* The token-kind switch of withdrawalReceiptAsync.
ReceiptTokenFields_NoFallthrough(receipt) ==
  IF receipt.tokenKind \in {"ERC721", "ERC721X"}
  THEN [tokenId |-> Some(unmarshalBigUIntPB(Get(receipt.tokenId))),
        tokenAmount |-> None,
        value |-> unmarshalBigUIntPB(Get(receipt.tokenId))]
  ELSE [tokenId |-> None,
        tokenAmount |-> Some(unmarshalBigUIntPB(Get(receipt.tokenAmount))),
        value |-> unmarshalBigUIntPB(Get(receipt.tokenAmount))]

ReceiptTokenFields(receipt) ==
  IF receipt.tokenKind = "ERC721"
  THEN [tokenId |-> Some(unmarshalBigUIntPB(Get(receipt.tokenId))),
        tokenAmount |-> None,
        value |-> unmarshalBigUIntPB(Get(receipt.tokenId))]
  ELSE [tokenId |-> IF receipt.tokenKind = "ERC721X"
                    THEN Some(unmarshalBigUIntPB(Get(receipt.tokenId)))
                    ELSE None,
        tokenAmount |-> Some(unmarshalBigUIntPB(Get(receipt.tokenAmount))),
        value |-> unmarshalBigUIntPB(Get(receipt.tokenAmount))]

\* The IWithdrawalReceipt built from a receipt.
WithdrawalReceipt(receipt) ==
  [tokenOwner |-> UnmarshalPB(Get(receipt.tokenOwner)),
   tokenContract |-> UnmarshalPB(Get(receipt.tokenContract)),
   tokenKind |-> receipt.tokenKind,
   tokenId |-> ReceiptTokenFields(receipt).tokenId,
   tokenAmount |-> ReceiptTokenFields(receipt).tokenAmount,
   withdrawalNonce |-> Get(receipt.withdrawalNonce),
   value |-> ReceiptTokenFields(receipt).value,
   sigs |-> MapSplitSignature(receipt.validatorSignatures)]

\* A receipt object whose every field is zero / empty.
ZeroReceipt ==
  [tokenOwner |-> [chainId |-> "", local |-> <<>>],
   tokenContract |-> [chainId |-> "", local |-> <<>>],
   tokenKind |-> "ETH", tokenId |-> None, tokenAmount |-> Some(0),
   withdrawalNonce |-> 0, value |-> 0, sigs |-> <<>>]

ReceiptResult_ZeroObject(resp) ==
  IF IsSome(resp.receipt) THEN Some(WithdrawalReceipt(Get(resp.receipt)))
  ELSE Some(ZeroReceipt)

\* if (receipt) { ... return {...} } return null
ReceiptResult(resp) ==
  IF IsSome(resp.receipt) THEN Some(WithdrawalReceipt(Get(resp.receipt)))
  ELSE None

\* withdrawalReceiptAsync(owner): the transport answers the static call with
\* resp. Polling again while the stored receipt is the same gets the same resp.
withdrawalReceiptAsync(owner, resp) ==
  /\ Fresh \/ (response = Some(resp) /\ receiptPrev = NoOutcome)
  /\ gwArgs' = Args("withdrawalReceipt", None, None, Some(owner), None)
  /\ gwSent' = Some([method |-> "WithdrawalReceipt",
                     req |-> [owner |-> Some(MarshalPB(owner))]])
  /\ gwOutcome' = NoOutcome
  /\ response' = Some(resp)
  /\ receiptOut' = Returned(ReceiptResult(resp))
  /\ receiptPrev' = IF response = Some(resp) THEN receiptOut ELSE NoOutcome
  /\ event' = None
  /\ emitted' = <<>>
  /\ UNCHANGED <<seqVars, interpVars>>

\* ------------------------------------------------- the Contract.EVENT listener
Topics == { tokenWithdrawalSignedEventTopic, contractMappingConfirmedEventTopic,
            "event:MainnetDepositEvent" }
TopicLists == { <<>> } \cup { <<t>> : t \in Topics }
                 \cup { <<t, u>> : t \in Topics, u \in Topics }
OptTopicLists == {None} \cup { Some(l) : l \in TopicLists }

\* What the chain publishes: the data belongs to the first topic.
ChainEvents ==
  { [topics |-> t, data |-> d] :
      t \in { o \in OptTopicLists :
                IsSome(o) /\ Get(o) # <<>> /\ Get(o)[1] = tokenWithdrawalSignedEventTopic },
      d \in RawWithdrawalsSigned }
  \cup
  { [topics |-> t, data |-> d] :
      t \in { o \in OptTopicLists :
                IsSome(o) /\ Get(o) # <<>> /\ Get(o)[1] = contractMappingConfirmedEventTopic },
      d \in RawMappingsConfirmed }
  \cup
  { [topics |-> t, data |-> EmptyMessage] :
      t \in { o \in OptTopicLists :
                ~IsSome(o) \/ Get(o) = <<>>
                  \/ Get(o)[1] \notin { tokenWithdrawalSignedEventTopic,
                                        contractMappingConfirmedEventTopic } } }

\* The token-kind switch of the listener.
EventTokenFields(eventData) ==
  IF eventData.tokenKind = "ERC721"
  THEN [tokenId |-> Some(unmarshalBigUIntPB(Get(eventData.tokenId))),
        tokenAmount |-> None,
        value |-> unmarshalBigUIntPB(Get(eventData.tokenId))]
  ELSE [tokenId |-> IF eventData.tokenKind = "ERC721X"
                    THEN Some(unmarshalBigUIntPB(Get(eventData.tokenId)))
                    ELSE None,
        tokenAmount |-> Some(unmarshalBigUIntPB(Get(eventData.tokenAmount))),
        value |-> unmarshalBigUIntPB(Get(eventData.tokenAmount))]

\* The ITokenWithdrawalEventArgs emitted for a signed withdrawal.
TokenWithdrawalEventArgs(eventData) ==
  [tokenOwner |-> UnmarshalPB(Get(eventData.tokenOwner)),
   tokenContract |-> UnmarshalPB(Get(eventData.tokenContract)),
   tokenKind |-> eventData.tokenKind,
   tokenId |-> EventTokenFields(eventData).tokenId,
   tokenAmount |-> EventTokenFields(eventData).tokenAmount,
   sigs |-> MapSplitSignature(eventData.validatorSignatures),
   value |-> EventTokenFields(eventData).value]

\* The IContractMappingConfirmedEventArgs.
ContractMappingConfirmedEventArgs(eventData) ==
  [foreignContract |-> UnmarshalPB(Get(eventData.foreignContract)),
   localContract |-> UnmarshalPB(Get(eventData.localContract))]

Emit(name, args) == [name |-> name, args |-> args]

\* A listener whose second branch emits under the first branch's name.
OnContractEvent_SameName(ev) ==
  IF ~IsSome(ev.topics) \/ Get(ev.topics) = <<>> THEN <<>>
  ELSE IF Get(ev.topics)[1] = tokenWithdrawalSignedEventTopic
       THEN << Emit(EVENT_TOKEN_WITHDRAWAL, TokenWithdrawalEventArgs(ev.data)) >>
       ELSE IF Get(ev.topics)[1] = contractMappingConfirmedEventTopic
            THEN << Emit(EVENT_TOKEN_WITHDRAWAL,
                         ContractMappingConfirmedEventArgs(ev.data)) >>
            ELSE <<>>

\* The this.on(Contract.EVENT, event => ...) callback: what it emits.
OnContractEvent(ev) ==
  IF ~IsSome(ev.topics) \/ Get(ev.topics) = <<>> THEN <<>>
  ELSE IF Get(ev.topics)[1] = tokenWithdrawalSignedEventTopic
       THEN << Emit(EVENT_TOKEN_WITHDRAWAL, TokenWithdrawalEventArgs(ev.data)) >>
       ELSE IF Get(ev.topics)[1] = contractMappingConfirmedEventTopic
            THEN << Emit(EVENT_CONTRACT_MAPPING_CONFIRMED,
                         ContractMappingConfirmedEventArgs(ev.data)) >>
            ELSE <<>>

\* One Contract.EVENT delivered to the listener.
ContractEvent(ev) ==
  /\ Fresh
  /\ event' = Some(ev)
  /\ emitted' = OnContractEvent(ev)
  /\ gwArgs' = NoArgs
  /\ gwSent' = None
  /\ gwOutcome' = NoOutcome
  /\ response' = None
  /\ receiptOut' = NoOutcome
  /\ receiptPrev' = NoOutcome
  /\ UNCHANGED <<seqVars, interpVars>>

Init == SeqInit /\ InterpIdle /\ GwInit
Next == SeqNext
Spec == Init /\ [][Next]_vars

InitInterpret == SeqInit /\ InterpInit /\ GwInit
NextInterpret == HandleResultsOnce
SpecInterpret == InitInterpret /\ [][NextInterpret]_vars

InitGateway == SeqInit /\ InterpIdle /\ GwInit
NextGateway ==
  \/ \E id \in BNs, c \in OptAddresses, r \in OptAddresses :
        withdrawERC721Async(id, c, r)
  \/ \E id \in BNs, amt \in BNs, c \in OptAddresses, r \in OptAddresses :
        withdrawERC721XAsync(id, amt, c, r)
  \/ \E amt \in BNs, c \in OptAddresses, r \in OptAddresses :
        withdrawERC20Async(amt, c, r)
  \/ \E amt \in BNs, g \in OptAddresses, r \in OptAddresses :
        withdrawETHAsync(amt, g, r)
  \/ \E owner \in Addresses, resp \in Responses :
        withdrawalReceiptAsync(owner, resp)
  \/ \E ev \in ChainEvents : ContractEvent(ev)
SpecGateway == InitGateway /\ [][NextGateway]_vars

\* ------------------------------------------------------------- properties
\* text contains sub as a contiguous run.
Contains(text, sub) ==
  \E i \in 0..(Len(text) - Len(sub)) :
    \A k \in 1..Len(sub) : text[i + k] = sub[k]

\* C1: every envelope Handle produced carries the sequence number read from
\* the chain for the caller's account plus one, and the payload it was given.
C1_WrapAttachesNextSequence ==
  \A p \in Callers :
    IsSome(tx[p]) =>
      /\ Get(tx[p]).sequence = Get(nonce[p]) + 1
      /\ Get(tx[p]).inner = txData[p]

C1_Witness ==
  \E p \in Callers :
    /\ IsSome(tx[p])
    /\ Get(nonce[p]) = 1
    /\ Get(tx[p]).sequence = 2
    /\ Get(tx[p]).inner = <<1, 2>>

\* A stage that reports a rejection whose log names the sequence mismatch.
StageRejectsWith(stage, codes) ==
  /\ IsSome(stage)
  /\ Get(stage).code \in codes
  /\ IsSome(Get(stage).log)
  /\ Contains(Get(Get(stage).log), NonceMismatchText)

InterpretThrowsExactlyOn(codes) ==
  iOutcome # NoOutcome =>
    /\ isInvalidTxNonceError(iOutcome)
         <=> \/ StageRejectsWith(iResults.validation, codes)
             \/ StageRejectsWith(iResults.commit, codes)
    /\ ~isInvalidTxNonceError(iOutcome)
         => iOutcome.kind = "returned" /\ iOutcome.value = iResults

\* C2 as stated: HandleResults throws the nonce error exactly when a present
\* stage has a non-zero code and a log containing the mismatch text, and
\* otherwise returns its input.
C2_AnyNonZeroCode == InterpretThrowsExactlyOn(StatusCodes \ {0})

\* C2 amended: HandleResults throws the nonce error exactly when a present
\* stage has code 1 and a log containing the mismatch text, and otherwise
\* (other codes included) returns its input.
C2_CodeOneOnly == InterpretThrowsExactlyOn({1})

C2_Witness ==
  /\ isInvalidTxNonceError(iOutcome)
  /\ iResults.validation = Stage(0, <<>>)
  /\ iResults.commit = Stage(1, NonceMismatchText)

\* The id / amount / value policy for a token kind.
TokenShape(kind, rawId, rawAmount, out) ==
  CASE kind = "ERC721" ->
         /\ out.tokenId = Some(unmarshalBigUIntPB(Get(rawId)))
         /\ out.tokenAmount = None
         /\ out.value = unmarshalBigUIntPB(Get(rawId))
    [] kind = "ERC721X" ->
         /\ out.tokenId = Some(unmarshalBigUIntPB(Get(rawId)))
         /\ out.tokenAmount = Some(unmarshalBigUIntPB(Get(rawAmount)))
         /\ out.value = unmarshalBigUIntPB(Get(rawAmount))
    [] OTHER ->
         /\ out.tokenId = None
         /\ out.tokenAmount = Some(unmarshalBigUIntPB(Get(rawAmount)))
         /\ out.value = unmarshalBigUIntPB(Get(rawAmount))

ReceiptDecoded == receiptOut.kind = "returned" /\ IsSome(receiptOut.value)
RawReceipt == Get(Get(response).receipt)
DecodedReceipt == Get(receiptOut.value)

WithdrawalEmitted ==
  IsSome(event) /\ Len(emitted) = 1 /\ emitted[1].name = EVENT_TOKEN_WITHDRAWAL
MappingEmitted ==
  IsSome(event) /\ Len(emitted) = 1
    /\ emitted[1].name = EVENT_CONTRACT_MAPPING_CONFIRMED

\* C3: a decoded receipt and a decoded signed-withdrawal event follow the same
\* policy: ERC721 gives tokenId = id, no tokenAmount, value = id; ERC721X gives
\* tokenId = id, tokenAmount = amount, value = amount; any other kind gives no
\* tokenId, tokenAmount = amount, value = amount.
C3_SameShapeForReceiptAndEvent ==
  /\ ReceiptDecoded =>
       /\ DecodedReceipt.tokenKind = RawReceipt.tokenKind
       /\ TokenShape(RawReceipt.tokenKind, RawReceipt.tokenId,
                     RawReceipt.tokenAmount, DecodedReceipt)
  /\ WithdrawalEmitted =>
       /\ emitted[1].args.tokenKind = Get(event).data.tokenKind
       /\ TokenShape(Get(event).data.tokenKind, Get(event).data.tokenId,
                     Get(event).data.tokenAmount, emitted[1].args)

C3_Witness ==
  /\ ReceiptDecoded
  /\ RawReceipt.tokenKind = "ERC721X"
  /\ DecodedReceipt.tokenId = Some(7)
  /\ DecodedReceipt.tokenAmount = Some(500)
  /\ DecodedReceipt.value = 500

\* C4: a receipt query always resolves; with null when the response carries
\* no receipt, and with a decoded receipt exactly when it carries one.
C4_AbsentReceiptIsNull ==
  IsSome(response) =>
    /\ receiptOut.kind = "returned"
    /\ IsSome(receiptOut.value) <=> IsSome(Get(response).receipt)
    /\ ~IsSome(Get(response).receipt) => receiptOut = Returned(None)

C4_Witness ==
  /\ response = Some([receipt |-> None])
  /\ receiptOut = Returned(None)

WithdrawOps == {"withdrawERC721", "withdrawERC721X", "withdrawERC20", "withdrawETH"}

RecipientAsSupplied(req) ==
  /\ IsSome(req.recipient) <=> IsSome(gwArgs.recipient)
  /\ IsSome(req.recipient) =>
       UnmarshalPB(Get(req.recipient)) = Get(gwArgs.recipient)

UIntFieldIs(field, arg) ==
  IsSome(field) /\ unmarshalBigUIntPB(Get(field)) = Get(arg)

\* C5: the request a withdraw operation submits has the fields of its token
\* kind and no others: ERC721 id and contract, no amount; ERC721X id, amount
\* and contract; ERC20 amount and contract, no id; ETH amount and mainnet
\* gateway and no token contract field; a recipient exactly when one was given.
C5_RequestFieldsPerKind ==
  (gwArgs.op \in WithdrawOps /\ IsSome(gwSent)) =>
    LET req == Get(gwSent).req
        method == Get(gwSent).method
    IN  CASE gwArgs.op = "withdrawERC721" ->
               /\ method = "WithdrawToken"
               /\ req.tokenKind = "ERC721"
               /\ UIntFieldIs(req.tokenId, gwArgs.tokenId)
               /\ req.tokenAmount = None
               /\ req.tokenContract = Some(MarshalPB(Get(gwArgs.address)))
               /\ RecipientAsSupplied(req)
          [] gwArgs.op = "withdrawERC721X" ->
               /\ method = "WithdrawToken"
               /\ req.tokenKind = "ERC721X"
               /\ UIntFieldIs(req.tokenId, gwArgs.tokenId)
               /\ UIntFieldIs(req.tokenAmount, gwArgs.amount)
               /\ req.tokenContract = Some(MarshalPB(Get(gwArgs.address)))
               /\ RecipientAsSupplied(req)
          [] gwArgs.op = "withdrawERC20" ->
               /\ method = "WithdrawToken"
               /\ req.tokenKind = "ERC20"
               /\ req.tokenId = None
               /\ UIntFieldIs(req.tokenAmount, gwArgs.amount)
               /\ req.tokenContract = Some(MarshalPB(Get(gwArgs.address)))
               /\ RecipientAsSupplied(req)
          [] OTHER ->
               /\ method = "WithdrawETH"
               /\ DOMAIN req = {"amount", "mainnetGateway", "recipient"}
               /\ UIntFieldIs(req.amount, gwArgs.amount)
               /\ req.mainnetGateway = Some(MarshalPB(Get(gwArgs.address)))
               /\ RecipientAsSupplied(req)

C5_Witness ==
  /\ gwArgs.op = "withdrawETH"
  /\ gwArgs.amount = Some(500)
  /\ gwArgs.recipient = None
  /\ IsSome(gwSent)
  /\ Get(gwSent).req.recipient = None
  /\ Get(gwSent).req.amount = Some(<<1, 244>>)

\* A withdraw call made without its token contract / mainnet gateway address.
AddressLeftOut == gwArgs.op \in WithdrawOps /\ ~IsSome(gwArgs.address)

SigsInOrder(raw, sigs) ==
  /\ Len(sigs) = Len(raw)
  /\ \A i \in 1..Len(raw) : sigs[i] = splitSignature(raw[i])

\* C7: the decoded signature list of a receipt or a signed-withdrawal event
\* has the length of the received list, its i-th element is the split form
\* of the i-th received signature, and a second decode of the same response
\* gives the same result.
C7_SignaturesKeepOrder ==
  /\ ReceiptDecoded => SigsInOrder(RawReceipt.validatorSignatures, DecodedReceipt.sigs)
  /\ WithdrawalEmitted =>
       SigsInOrder(Get(event).data.validatorSignatures, emitted[1].args.sigs)
  /\ receiptPrev # NoOutcome => receiptPrev = receiptOut

C7_Witness ==
  /\ ReceiptDecoded
  /\ receiptPrev # NoOutcome
  /\ RawReceipt.validatorSignatures = << <<31, 32, 1>>, <<11, 12, 27>> >>
  /\ DecodedReceipt.sigs[1].r = 31
  /\ DecodedReceipt.sigs[1].v = 28
  /\ DecodedReceipt.sigs[2].r = 11

\* Two callers of one account whose envelopes were built from the same read.
SameRead(p, q) ==
  /\ p # q
  /\ fromAddress(p) = fromAddress(q)
  /\ IsSome(tx[p]) /\ IsSome(tx[q])
  /\ nonce[p] = nonce[q]

RejectedForMismatch(res) ==
  \/ StageRejectsWith(res.validation, StatusCodes \ {0})
  \/ StageRejectsWith(res.commit, StatusCodes \ {0})

C8_State ==
  \A p, q \in Callers :
    SameRead(p, q) =>
      /\ Get(tx[p]).sequence = Get(tx[q]).sequence
      /\ ~(committed[p] /\ committed[q])

C8_Step ==
  \A p, q \in Callers :
    (SameRead(p, q) /\ committed[p]) =>
      /\ (pc[q] = "wrapped" /\ pc'[q] = "submitted") =>
           /\ ~committed'[q]
           /\ RejectedForMismatch(Get(results'[q]))
      /\ (pc[q] = "submitted" /\ pc'[q] = "done"
            /\ RejectedForMismatch(Get(results[q]))) =>
           isInvalidTxNonceError(outcome'[q])

\* C8: nothing keeps two Handle calls of one account apart. When both built
\* their envelope from the same read, the envelopes carry the same sequence
\* number, at most one is committed, and once one is committed the chain
\* rejects the other for the sequence mismatch and HandleResults throws the
\* nonce error for it.
C8_RacingWrapsConflict == [][C8_State' /\ C8_Step]_vars

C8_Witness ==
  \E p, q \in Callers :
    /\ SameRead(p, q)
    /\ committed[p]
    /\ pc[q] = "done"
    /\ Get(results[q]).commit = Stage(1, NonceMismatchText)
    /\ isInvalidTxNonceError(outcome[q])

C9_State ==
  \A p \in Callers :
    (serial[fromAddress(p)] /\ pc[p] = "wrapped") =>
      Get(tx[p]).sequence = chainNonce[fromAddress(p)] + 1

C9_Step ==
  \A p \in Callers :
    (serial'[fromAddress(p)] /\ pc[p] = "awaitNonce" /\ pc'[p] = "wrapped") =>
      /\ Get(tx'[p]).sequence > lastAttached[fromAddress(p)]
      /\ Get(tx'[p]).sequence = Get(nonce[p]) + 1

\* C9: Handle reads the chain on every call. While the wraps of an account
\* are serialized, each starting after the previous one was committed, every
\* envelope waiting for submission carries last committed + 1 and each wrap
\* attaches a larger sequence number than the wrap before it.
C9_SerializedWrapsIncrease == [][C9_State' /\ C9_Step]_vars

C9_Witness ==
  \E p \in Callers :
    /\ serial[fromAddress(p)]
    /\ IsSome(tx[p])
    /\ committed[p]
    /\ Get(tx[p]).sequence = 2
    /\ chainNonce[fromAddress(p)] = 2

FirstTopicIs(topic) ==
  /\ IsSome(Get(event).topics)
  /\ Get(Get(event).topics) # <<>>
  /\ Get(Get(event).topics)[1] = topic

\* C10: for a delivered chain event the listener emits at most one user
\* event: the token-withdrawal event exactly when the first topic is the
\* TokenWithdrawalSigned topic, the contract-mapping-confirmed event (with the
\* foreign and local contract addresses) exactly when it is the
\* ContractMappingConfirmed topic, and nothing otherwise.
C10_OneEventPerTopic ==
  IsSome(event) =>
    /\ Len(emitted) <= 1
    /\ WithdrawalEmitted <=> FirstTopicIs(tokenWithdrawalSignedEventTopic)
    /\ MappingEmitted <=> FirstTopicIs(contractMappingConfirmedEventTopic)
    /\ MappingEmitted =>
         /\ MarshalPB(emitted[1].args.foreignContract)
              = Get(Get(event).data.foreignContract)
         /\ MarshalPB(emitted[1].args.localContract)
              = Get(Get(event).data.localContract)
    /\ (~FirstTopicIs(tokenWithdrawalSignedEventTopic)
          /\ ~FirstTopicIs(contractMappingConfirmedEventTopic)) => emitted = <<>>

C10_Witness ==
  /\ MappingEmitted
  /\ Get(event).topics = Some(<<contractMappingConfirmedEventTopic,
                                tokenWithdrawalSignedEventTopic>>)
  /\ emitted[1].args.foreignContract # emitted[1].args.localContract

====
